---- MODULE Spec2Model ----
(***************************************************************************)
(* The execution-to-proof binding layer of the VM: the two entry points    *)
(* distaff `execute` (src/distaff/src/lib.rs) and prover `prove`           *)
(* (src/prover/src/lib.rs), one call per behaviour.  The execution engine  *)
(* and the proof engine are external: the execution engine may hand back   *)
(* any trace of the bounded shape (or fail), the proof engine may succeed  *)
(* or fail.                                                                *)
(***************************************************************************)
EXTENDS Integers, Sequences, FiniteSets, TLC

VARIABLES
    entry,             \* which entry point is called: "distaff" or "prover"
    std,               \* build: cargo feature "std" enabled
    debug_assertions,  \* build: debug assertions compiled in
    program,           \* program.hash(): digest of the Program the caller passed
    stack_inputs,      \* declared public stack inputs (field elements)
    advice,            \* secret advice tape of the inputs
    num_outputs,       \* requested output count (distaff only)
    options,           \* the caller's ProofOptions
    pc,                \* stage of the call
    trace,             \* Option: trace returned by the execution engine
    outputs,           \* Option: outputs extracted from the trace
    pub_inputs,        \* Option: the PublicInputs value built
    given,             \* Option: what the proof engine was invoked with
    result,            \* what the call hands back to the caller
    exec_calls,        \* invocations of the execution engine
    prove_calls,       \* invocations of the proof engine
    log,               \* the checks and engine calls of the call, in order
    raised,            \* Option: the error an external engine failed with
    prev,              \* Option: the outcome of an earlier call with the same arguments
    zip                \* the zip comparison under test: sequences and result

vars == << entry, std, debug_assertions, program, stack_inputs, advice,
           num_outputs, options, pc, trace, outputs, pub_inputs, given,
           result, exec_calls, prove_calls, log, raised, prev, zip >>

----------------------------------------------------------------------------
\* Protocol constants of the air crate (imported at distaff lib.rs:1); the
\* crate is not part of the sources, the model uses small values.
MAX_OUTPUTS == 2

MIN_TRACE_LENGTH == 2

\* Bounds of the model.
MaxFelt == 1

MaxTraceLen == 2

\* Longest sequence handed to the zip comparisons when they are checked alone.
MaxZipLen == 3

\* The user stack of a trace row is at least MAX_OUTPUTS deep.
StackDepth == MAX_OUTPUTS

----------------------------------------------------------------------------
\* Option values.
None == << >>

Some(x) == << x >>

\* Field elements, and their conversion to the integer domain.
Felt(n) == [f |-> n]

Felts == { Felt(n) : n \in 0..MaxFelt }

as_int(e) == e.f

\* .iter().map(|&v| v.as_int()).collect()
MapAsInt(s) == [i \in 1..Len(s) |-> as_int(s[i])]

\* The 32-byte digest of a hash accumulator.
to_bytes(e) == e.f

\* Two distinct program digests.
Hashes == { 1, 2 }

\* Values of the secret advice tape.
AdviceValues == { Felt(0), Felt(1) }

SeqsUpTo(S, n) == UNION { [1..m -> S] : m \in 0..n }

Stacks == [1..StackDepth -> Felts]

\* A decoded trace row: operation counter, program-hash accumulator, user stack.
TraceStates ==
    [ op_counter : { Felt(n) : n \in (MIN_TRACE_LENGTH - 1)..MaxTraceLen },
      program_hash : { Felt(h) : h \in Hashes },
      user_stack : Stacks ]

\* What the execution engine can return: the row count, the stack of the
\* first row and the last row (a trace of one row has one stack).
Traces ==
    { t \in [ length : (MIN_TRACE_LENGTH - 1)..MaxTraceLen,
              init_stack : Stacks,
              last_row : TraceStates ] :
        t.length = 1 => t.init_stack = t.last_row.user_stack }

----------------------------------------------------------------------------
\* Accessors of ExecutionTrace (prover crate's view of the trace).
init_stack_state(t) == t.init_stack

last_stack_state(t) == t.last_row.user_stack

trace_program_hash(t) == to_bytes(t.last_row.program_hash)

\* ProgramOutputs of a trace: the stack top of its final row.
program_outputs(t) == t.last_row.user_stack

\* trace.read_row_into + TraceState::from_slice: the decoded row at `step`.
\* Of the rows of a trace the model keeps the last one.
read_row(t, step) == CASE step = t.length - 1 -> t.last_row

\* distaff get_last_state: decode the row at index trace.length() - 1.
get_last_state(t) ==
    LET last_step == t.length - 1
    IN  read_row(t, last_step)

\* Mutant: the outputs are read from the first row of the trace.
extract_outputs_first_row(t, k) == MapAsInt(SubSeq(t.init_stack, 1, k))

\* distaff execute, lines 53-57: the first num_outputs values of the user
\* stack of the last state, converted to integers.
extract_outputs(t, k) ==
    LET last_state == get_last_state(t)
    IN  MapAsInt(SubSeq(last_state.user_stack, 1, k))

Min(a, b) == IF a <= b THEN a ELSE b

\* Mutant: the last pair of the zip is not compared.
ZipLen_one_short(a, b) == Min(Len(a), Len(b)) - 1

\* Iterator::zip stops at the end of the shorter sequence.
ZipLen(a, b) == Min(Len(a), Len(b))

are_inputs_valid(declared, t) ==
    \A i \in 1..ZipLen(declared, init_stack_state(t)) :
        declared[i] = init_stack_state(t)[i]

are_outputs_valid(outs, t) ==
    \A i \in 1..ZipLen(outs, last_stack_state(t)) :
        outs[i] = last_stack_state(t)[i]

\* PublicInputs::new: the statement holds exactly these three values.
PublicInputsNew(hash, ins, outs) ==
    [ program_hash |-> hash, inputs |-> ins, outputs |-> outs ]

\* Mutant: the whole user stack of the last state is bound as the outputs.
distaff_pub_inputs_whole_stack(t, declared, outs) ==
    PublicInputsNew(to_bytes(get_last_state(t).program_hash),
                    MapAsInt(declared), MapAsInt(get_last_state(t).user_stack))

\* Mutant: state kept from an earlier call (did it end with a proof?) is
\* mixed into the statement.
distaff_pub_inputs_salted(t, declared, outs) ==
    PublicInputsNew(to_bytes(get_last_state(t).program_hash),
                    MapAsInt(declared),
                    IF prev # None /\ prev[1].stmt # None
                    THEN Append(outs, 1) ELSE outs)

\* distaff execute, lines 78-83.
distaff_pub_inputs(t, declared, outs) ==
    PublicInputsNew(to_bytes(get_last_state(t).program_hash),
                    MapAsInt(declared), outs)

\* Mutant: the secret advice tape is bound together with the public inputs.
prover_pub_inputs_with_advice(t, declared, outs) ==
    PublicInputsNew(trace_program_hash(t), Append(declared, advice), outs)

\* prover get_pub_inputs, line 131.
prover_pub_inputs(t, declared, outs) ==
    PublicInputsNew(trace_program_hash(t), declared, outs)

----------------------------------------------------------------------------
\* Results of the call.
Pending == [ kind |-> "Pending", etype |-> "", error |-> "", cause |-> "",
             outputs |-> None, proof |-> None ]

\* Result::Ok((outputs, proof))
Ok(outs, proof) == [ kind |-> "Ok", etype |-> "", error |-> "", cause |-> "",
                     outputs |-> Some(outs), proof |-> Some(proof) ]

\* Result::Err(e): e of error type etype
Err(etype, e) == [ kind |-> "Err", etype |-> etype, error |-> e, cause |-> "",
                   outputs |-> None, proof |-> None ]

\* A failed assert!/debug_assert!/unwrap: the call panics, nothing is returned.
Panic(e) == [ kind |-> "Abort", etype |-> "panic", error |-> e, cause |-> "",
              outputs |-> None, proof |-> None ]

\* The failure r, carrying the error value c of the engine that failed.
Caused(r, c) == [ r EXCEPT !.cause = c ]

\* Error values of the execution engine and of the proof engine.
ExecutionErrors == { "MalformedProgram", "AdviceTapeExhausted" }

ProverErrors == { "ResourceExhausted", "InvalidTraceShape" }

\* The zip comparison is not under test in a call of an entry point.
NoZip == [ decl |-> << >>, stack |-> << >>, out |-> None ]

Tr == trace[1]

\* One call of one entry point.  Each crate reads one build switch: distaff
\* the "std" feature (hash check), prover the debug assertions; the switch the
\* crate does not read is held fixed.
Init ==
    /\ entry \in { "distaff", "prover" }
    /\ std \in IF entry = "distaff" THEN BOOLEAN ELSE { TRUE }
    /\ debug_assertions \in IF entry = "prover" THEN BOOLEAN ELSE { FALSE }
    /\ program \in Hashes
    /\ stack_inputs \in SeqsUpTo(Felts, StackDepth)
    /\ advice \in AdviceValues
    /\ num_outputs \in IF entry = "distaff" THEN 0..(MAX_OUTPUTS + 1) ELSE { StackDepth }
    /\ options \in { "opts96", "opts128" }
    /\ pc = "NotStarted"
    /\ trace = None
    /\ outputs = None
    /\ pub_inputs = None
    /\ given = None
    /\ result = Pending
    /\ exec_calls = 0
    /\ prove_calls = 0
    /\ log = << >>
    /\ raised = None
    /\ prev = None
    /\ zip = NoZip

Args == << entry, std, debug_assertions, program, stack_inputs, advice,
           num_outputs, options >>

\* Mutant: the cap is off by one.
output_count_ok_offbyone(k) == k <= MAX_OUTPUTS + 1

\* distaff execute, line 34: num_outputs <= MAX_OUTPUTS.
output_count_ok(k) == k <= MAX_OUTPUTS

\* distaff execute, lines 33-38: assert!(num_outputs <= MAX_OUTPUTS).
CheckOutputCount ==
    /\ entry = "distaff"
    /\ pc = "NotStarted"
    /\ log' = Append(log, "cap_check")
    /\ IF output_count_ok(num_outputs)
       THEN /\ pc' = "Started"
            /\ result' = result
       ELSE /\ pc' = "Aborted"
            /\ result' = Panic("OutputCountExceeded")
    /\ UNCHANGED << Args, prev, zip, raised, trace, outputs, pub_inputs, given, exec_calls, prove_calls >>

\* distaff execute line 43 / prover prove line 45: processor::execute.
\* The engine returns a trace or fails; distaff's engine returns the trace
\* itself (no Result), so its failure is a panic inside the engine, prover's
\* `?` returns the ExecutionError.
\* Mutant: the execution error is reported as a proving error.
execution_failure_as_prover_error(e) ==
    Caused(Err("ExecutionError::ProverError", "ProvingFailure"), e)

\* prover prove line 45: `?` returns the engine's ExecutionError as it is.
execution_failure(e) == Caused(Err("ExecutionError", "ExecutionFailure"), e)

\* What processor::execute returns in this call.  The engine is
\* deterministic: called again with the same program and inputs it returns
\* what it returned before.
EngineTraces ==
    IF prev = None THEN Traces
    ELSE { t \in Traces : prev[1].trace = Some(t) }

EngineErrors ==
    IF prev = None THEN ExecutionErrors
    ELSE { e \in ExecutionErrors :
             prev[1].raised = Some([ engine |-> "execution", error |-> e ]) }

Execute ==
    /\ \/ entry = "distaff" /\ pc = "Started"
       \/ entry = "prover" /\ pc = "NotStarted"
    /\ exec_calls' = exec_calls + 1
    /\ log' = Append(log, "execute")
    /\ \/ \E t \in EngineTraces :
            /\ trace' = Some(t)
            /\ pc' = "Executed"
            /\ result' = result
            /\ raised' = raised
       \/ \E e \in EngineErrors :
            /\ trace' = trace
            /\ raised' = Some([ engine |-> "execution", error |-> e ])
            /\ IF entry = "prover"
               THEN /\ pc' = "Failed"
                    /\ result' = execution_failure(e)
               ELSE /\ pc' = "Aborted"
                    /\ result' = Caused(Panic("ExecutionFailure"), e)
    /\ UNCHANGED << Args, prev, zip, outputs, pub_inputs, given, prove_calls >>

\* Mutant: extraction takes the values out of the trace, leaving zeros in
\* the user stack of the last row.
ExtractOutputs_draining ==
    /\ pc = "Executed"
    /\ log' = Append(log, "extract")
    /\ outputs' = Some(IF entry = "distaff"
                       THEN extract_outputs(Tr, num_outputs)
                       ELSE program_outputs(Tr))
    /\ trace' = Some([ Tr EXCEPT !.last_row.user_stack =
                                     [ i \in 1..StackDepth |-> Felt(0) ] ])
    /\ pc' = "Extracted"
    /\ UNCHANGED << Args, prev, zip, raised, pub_inputs, given, result, exec_calls, prove_calls >>

\* distaff execute lines 53-57 / prover prove line 54.
ExtractOutputs ==
    /\ pc = "Executed"
    /\ log' = Append(log, "extract")
    /\ outputs' = Some(IF entry = "distaff"
                       THEN extract_outputs(Tr, num_outputs)
                       ELSE program_outputs(Tr))
    /\ pc' = "Extracted"
    /\ UNCHANGED << Args, prev, zip, raised, trace, pub_inputs, given, result, exec_calls, prove_calls >>

\* Mutant: the row count of the trace is compared instead of the counter.
length_ok_row_count(t) == t.length >= MIN_TRACE_LENGTH

\* distaff execute line 60-65: the operation counter of the last state.
length_ok(t) == as_int(get_last_state(t).op_counter) >= MIN_TRACE_LENGTH

\* distaff execute lines 68-75: the hash check is compiled only with "std".
hash_ok(t) == std => program = to_bytes(get_last_state(t).program_hash)

\* distaff execute lines 59-75: the two assertions, in order.
Validate ==
    /\ entry = "distaff"
    /\ pc = "Extracted"
    /\ IF ~length_ok(Tr)
       THEN /\ log' = Append(log, "check_length")
            /\ pc' = "Aborted"
            /\ result' = Panic("TraceTooShort")
       ELSE IF ~hash_ok(Tr)
       THEN /\ log' = log \o << "check_length", "check_hash" >>
            /\ pc' = "Aborted"
            /\ result' = Panic("ProgramHashMismatch")
       ELSE /\ log' = log \o (IF std THEN << "check_length", "check_hash" >>
                                     ELSE << "check_length" >>)
            /\ pc' = "Validated"
            /\ result' = result
    /\ UNCHANGED << Args, prev, zip, raised, trace, outputs, pub_inputs, given, exec_calls, prove_calls >>

\* Mutant: the statement is built right after extraction, before the
\* assertions on the last state.
Bind_before_validation ==
    /\ entry = "distaff"
    /\ pc \in { "Extracted", "Validated" }
    /\ log' = Append(log, "bind")
    /\ pub_inputs' = Some(distaff_pub_inputs(Tr, stack_inputs, outputs[1]))
    /\ pc' = "Bound"
    /\ UNCHANGED << Args, prev, zip, raised, trace, outputs, given, result, exec_calls, prove_calls >>

\* distaff execute lines 78-83: PublicInputs::new(program_hash, &inputs, &outputs).
Bind ==
    /\ entry = "distaff"
    /\ pc = "Validated"
    /\ log' = Append(log, "bind")
    /\ pub_inputs' = Some(distaff_pub_inputs(Tr, stack_inputs, outputs[1]))
    /\ pc' = "Bound"
    /\ UNCHANGED << Args, prev, zip, raised, trace, outputs, given, result, exec_calls, prove_calls >>

\* prover prove lines 57-58 and get_pub_inputs lines 120-132: the prover
\* object is built from (options.clone(), stack_inputs, outputs.clone()) and
\* asked for the public inputs of the trace; the two debug_assert!s are
\* compiled only with debug assertions.
GetPubInputs ==
    /\ entry = "prover"
    /\ pc = "Extracted"
    /\ IF debug_assertions /\ ~are_inputs_valid(stack_inputs, Tr)
       THEN /\ log' = Append(log, "check_inputs")
            /\ pc' = "Aborted"
            /\ result' = Panic("StackInputMismatch")
            /\ pub_inputs' = pub_inputs
       ELSE IF debug_assertions /\ ~are_outputs_valid(outputs[1], Tr)
       THEN /\ log' = log \o << "check_inputs", "check_outputs" >>
            /\ pc' = "Aborted"
            /\ result' = Panic("StackOutputMismatch")
            /\ pub_inputs' = pub_inputs
       ELSE /\ log' = log \o (IF debug_assertions
                              THEN << "check_inputs", "check_outputs", "bind" >>
                              ELSE << "bind" >>)
            /\ pc' = "Bound"
            /\ result' = result
            /\ pub_inputs' = Some(prover_pub_inputs(Tr, stack_inputs, outputs[1]))
    /\ UNCHANGED << Args, prev, zip, raised, trace, outputs, given, exec_calls, prove_calls >>

\* The error a failure of the proof engine becomes: distaff line 84 `?`
\* returns the ProverError, prover line 58 wraps it in ExecutionError.
proving_failure(e) ==
    IF entry = "distaff"
    THEN Caused(Err("ProverError", "ProvingFailure"), e)
    ELSE Caused(Err("ExecutionError::ProverError", "ProvingFailure"), e)

ProofNonces == { 1, 2 }

\* Mutant: a failure of the proof engine is retried (up to three attempts).
Prove_with_retry ==
    /\ pc = "Bound"
    /\ prove_calls < 3
    /\ prove_calls' = prove_calls + 1
    /\ log' = Append(log, "prove")
    /\ given' = Some([ trace |-> Tr, pub_inputs |-> pub_inputs[1], options |-> options ])
    /\ \/ \E r \in ProofNonces :
            /\ pc' = "Proved"
            /\ result' = Ok(outputs[1], [ stmt |-> pub_inputs[1], nonce |-> r ])
            /\ raised' = raised
       \/ \E e \in ProverErrors :
            /\ pc' = IF prove_calls < 2 THEN "Bound" ELSE "Failed"
            /\ raised' = Some([ engine |-> "proof", error |-> e ])
            /\ result' = IF prove_calls < 2 THEN result ELSE proving_failure(e)
    /\ UNCHANGED << Args, prev, zip, trace, outputs, pub_inputs, exec_calls >>

\* distaff execute lines 84-86 / prover prove lines 58-60: the proof engine
\* is handed (trace, pub_inputs, options.clone()) and succeeds or fails.
Prove ==
    /\ pc = "Bound"
    /\ prove_calls' = prove_calls + 1
    /\ log' = Append(log, "prove")
    /\ given' = Some([ trace |-> Tr, pub_inputs |-> pub_inputs[1], options |-> options ])
    /\ \/ \E r \in ProofNonces :
            /\ pc' = "Proved"
            /\ result' = Ok(outputs[1], [ stmt |-> pub_inputs[1], nonce |-> r ])
            /\ raised' = raised
       \/ \E e \in ProverErrors :
            /\ pc' = "Failed"
            /\ raised' = Some([ engine |-> "proof", error |-> e ])
            /\ result' = proving_failure(e)
    /\ UNCHANGED << Args, prev, zip, trace, outputs, pub_inputs, exec_calls >>

Next ==
    \/ CheckOutputCount
    \/ Execute
    \/ ExtractOutputs
    \/ Validate
    \/ Bind
    \/ GetPubInputs
    \/ Prove

Spec == Init /\ [][Next]_vars

\* The caller calls the entry point a second time with identical program,
\* inputs, output count and options, once the first call has ended; what
\* the first call produced is kept for comparison (of its proof, the
\* statement it proves).
SecondCall ==
    /\ pc \in { "Proved", "Failed", "Aborted" }
    /\ prev = None
    /\ prev' = Some([ trace |-> trace,
                      raised |-> IF raised # None /\ raised[1].engine = "execution"
                                 THEN raised ELSE None,
                      pub_inputs |-> pub_inputs,
                      outputs |-> result.outputs,
                      stmt |-> IF result.proof = None THEN None
                               ELSE Some(result.proof[1].stmt) ])
    /\ pc' = "NotStarted"
    /\ trace' = None
    /\ outputs' = None
    /\ pub_inputs' = None
    /\ given' = None
    /\ result' = Pending
    /\ exec_calls' = 0
    /\ prove_calls' = 0
    /\ log' = << >>
    /\ raised' = None
    /\ UNCHANGED << Args, zip >>

NextPair == Next \/ SecondCall

\* The two comparisons of ExecutionProver on their own: a declared sequence
\* and a stack state of any lengths up to MaxZipLen, and the function applied.
ZipTrace == [ init_stack |-> zip.stack, last_row |-> [ user_stack |-> zip.stack ] ]

InitZip ==
    /\ entry = "prover"
    /\ std = TRUE
    /\ debug_assertions = TRUE
    /\ program = 1
    /\ stack_inputs = << >>
    /\ advice = Felt(0)
    /\ num_outputs = StackDepth
    /\ options = "opts96"
    /\ pc = "Zip"
    /\ trace = None
    /\ outputs = None
    /\ pub_inputs = None
    /\ given = None
    /\ result = Pending
    /\ exec_calls = 0
    /\ prove_calls = 0
    /\ log = << >>
    /\ raised = None
    /\ prev = None
    /\ zip \in [ decl : SeqsUpTo(Felts, MaxZipLen),
                  stack : SeqsUpTo(Felts, MaxZipLen),
                  out : { None } ]

ZipFrame ==
    UNCHANGED << Args, prev, raised, pc, trace, outputs, pub_inputs, given,
                 result, exec_calls, prove_calls, log >>

\* prover lines 85-95: are_inputs_valid(&self, trace).
ApplyInputsValid ==
    /\ pc = "Zip"
    /\ zip.out = None
    /\ zip' = [ zip EXCEPT !.out =
                  Some([ fn |-> "are_inputs_valid",
                         ret |-> are_inputs_valid(zip.decl, ZipTrace) ]) ]
    /\ ZipFrame

\* prover lines 98-108: are_outputs_valid(&self, trace).
ApplyOutputsValid ==
    /\ pc = "Zip"
    /\ zip.out = None
    /\ zip' = [ zip EXCEPT !.out =
                  Some([ fn |-> "are_outputs_valid",
                         ret |-> are_outputs_valid(zip.decl, ZipTrace) ]) ]
    /\ ZipFrame

NextZip == ApplyInputsValid \/ ApplyOutputsValid

SpecZip == InitZip /\ [][NextZip]_vars

\* Two calls are explored for one value each of the options, the advice
\* tape and the program's hash: no step reads the first two, and the hash
\* is only compared for equality with the trace's, which takes every value.
InitPair == Init /\ options = "opts128" /\ advice = Felt(1) /\ program = 1

SpecPair == InitPair /\ [][NextPair]_vars

----------------------------------------------------------------------------
\* The conditions of the validator, stated of a trace and the caller's claim.

Terminal == pc \in { "Proved", "Failed", "Aborted" }

ProofEngineInvoked == given # None

\* A stack value in the domain of the entry point's PublicInputs: distaff
\* binds integers, prover binds the field elements.
Public(e) == IF entry = "distaff" THEN as_int(e) ELSE e

MinLengthHolds(t) == t.length >= MIN_TRACE_LENGTH

HashBindingHolds(t) == to_bytes(t.last_row.program_hash) = program

InputBindingHolds(t) ==
    /\ Len(stack_inputs) <= Len(t.init_stack)
    /\ \A i \in 1..Len(stack_inputs) : t.init_stack[i] = stack_inputs[i]

OutputBindingHolds(t, outs) ==
    /\ Len(outs) <= Len(t.last_row.user_stack)
    /\ \A i \in 1..Len(outs) : outs[i] = Public(t.last_row.user_stack[i])

ValidatorErrors ==
    { "OutputCountExceeded", "TraceTooShort", "ProgramHashMismatch",
      "StackInputMismatch", "StackOutputMismatch" }

NothingReturned == result.outputs = None /\ result.proof = None

----------------------------------------------------------------------------
\* C1: a call with num_outputs > MAX_OUTPUTS never invokes the execution
\* engine, and once it has taken its first step it has failed with
\* OutputCountExceeded.
C1_OutputCountCap ==
    (entry = "distaff" /\ num_outputs > MAX_OUTPUTS) =>
        /\ exec_calls = 0
        /\ trace = None
        /\ pc # "NotStarted" =>
              /\ Terminal
              /\ result.kind \in { "Err", "Abort" }
              /\ result.error = "OutputCountExceeded"

C1_Witness ==
    /\ entry = "distaff"
    /\ num_outputs > MAX_OUTPUTS
    /\ pc = "Aborted"
    /\ result.error = "OutputCountExceeded"

\* C2: in every state where the proof engine has been invoked, the four
\* checks (minimum length, program hash, inputs, outputs) hold of the trace
\* it was given.
C2_NoProofForInvalidTrace ==
    ProofEngineInvoked =>
        /\ MinLengthHolds(given[1].trace)
        /\ HashBindingHolds(given[1].trace)
        /\ InputBindingHolds(given[1].trace)
        /\ OutputBindingHolds(given[1].trace, given[1].pub_inputs.outputs)

\* C3: the program hash of a PublicInputs value equals the digest of the
\* caller's Program, and a call whose trace embeds another hash ends in
\* ProgramHashMismatch without a proof, at both entry points and in every
\* build.
C3_ProgramHashBinding ==
    /\ pub_inputs # None => pub_inputs[1].program_hash = program
    /\ (Terminal /\ trace # None /\ MinLengthHolds(Tr) /\ ~HashBindingHolds(Tr)) =>
          /\ result.error = "ProgramHashMismatch"
          /\ result.proof = None

\* C4: whenever the proof engine is invoked, the initial stack of the trace
\* equals the declared public stack inputs at every declared position.
C4_InputBinding ==
    ProofEngineInvoked => InputBindingHolds(given[1].trace)

\* C5: whenever the proof engine is invoked, the outputs of the PublicInputs
\* it is given are, element by element, the top of the user stack of the
\* final row of the trace it is given, and are the outputs extracted from
\* that trace.
C5_OutputBinding ==
    ProofEngineInvoked =>
        /\ OutputBindingHolds(given[1].trace, given[1].pub_inputs.outputs)
        /\ outputs = Some(given[1].pub_inputs.outputs)

C5_Witness ==
    /\ ProofEngineInvoked
    /\ Len(given[1].pub_inputs.outputs) = StackDepth
    /\ \E i \in 1..StackDepth :
          given[1].trace.last_row.user_stack[i] # given[1].trace.init_stack[i]

\* C6: a proof is produced only for a trace of at least MIN_TRACE_LENGTH
\* rows, and a call whose trace is shorter ends in TraceTooShort without a
\* proof, whatever its bindings.
C6_MinimumLength ==
    /\ ProofEngineInvoked => MinLengthHolds(given[1].trace)
    /\ (Terminal /\ trace # None /\ ~MinLengthHolds(Tr)) =>
          /\ result.error = "TraceTooShort"
          /\ result.proof = None

\* C7: a call that ended on a failure path (cap exceeded, execution failure,
\* a validator check failing of the trace, proving failure) returned a
\* failure value and neither outputs nor a proof; outputs and proof are
\* returned only together and only at Proved.
FailurePath ==
    \/ entry = "distaff" /\ num_outputs > MAX_OUTPUTS
    \/ result.error \in { "ExecutionFailure", "ProvingFailure" }
    \/ /\ trace # None
       /\ \/ ~MinLengthHolds(Tr)
          \/ ~HashBindingHolds(Tr)
          \/ ~InputBindingHolds(Tr)
          \/ outputs # None /\ ~OutputBindingHolds(Tr, outputs[1])

C7_NothingReturnedOnFailure ==
    /\ (Terminal /\ FailurePath) => (result.kind = "Err" /\ NothingReturned)
    /\ (result.outputs # None \/ result.proof # None) =>
          (pc = "Proved" /\ result.outputs # None /\ result.proof # None)

\* C8: on success the outputs returned are the outputs bound into the
\* PublicInputs given to the proof engine, and both are the first k values
\* of the user stack of the final row of the trace (k the requested count).
C8_ReturnedOutputsAreBound ==
    result.kind = "Ok" =>
        /\ result.outputs = Some(given[1].pub_inputs.outputs)
        /\ result.proof[1].stmt.outputs = result.outputs[1]
        /\ Len(result.outputs[1]) = num_outputs
        /\ \A i \in 1..num_outputs :
              result.outputs[1][i] = Public(given[1].trace.last_row.user_stack[i])

C8_Witness ==
    /\ result.kind = "Ok"
    /\ entry = "distaff"
    /\ num_outputs = 1
    /\ result.outputs[1][1] # as_int(Tr.last_row.user_stack[2])

\* C9: the PublicInputs value has exactly the three components program hash,
\* public inputs and outputs, and each is the value handed to the binder:
\* the hash embedded in the trace, the declared public inputs and the
\* extracted outputs; nothing of the advice tape, the options or the rest
\* of the trace enters it.
C9_PublicInputsOfTheThreeOnly ==
    pub_inputs # None =>
        /\ DOMAIN pub_inputs[1] = { "program_hash", "inputs", "outputs" }
        /\ pub_inputs[1].program_hash = to_bytes(Tr.last_row.program_hash)
        /\ Len(pub_inputs[1].inputs) = Len(stack_inputs)
        /\ \A i \in 1..Len(stack_inputs) :
              pub_inputs[1].inputs[i] = Public(stack_inputs[i])
        /\ pub_inputs[1].outputs = outputs[1]

C9_Witness ==
    /\ pub_inputs # None
    /\ Len(stack_inputs) > 0
    /\ advice # stack_inputs[1]
    /\ Tr.init_stack # Tr.last_row.user_stack

\* C10: every validator condition reaches the caller as an error value of
\* the result; none ends the call in an abort.
C10_ValidatorErrorsAreValues ==
    result.error \in ValidatorErrors => (result.kind = "Err" /\ pc # "Aborted")

\* C11: the failure identifies the stage that failed.  A failure of the
\* execution engine ends the call in an execution failure carrying the
\* engine's error unchanged, never in a proving error; a failure of the proof
\* engine is returned as a proving error carrying the engine's error
\* unchanged, of a kind an execution failure never has.
ProvingErrorTypes == { "ProverError", "ExecutionError::ProverError" }

StageOf(p) ==
    CASE p \in { "NotStarted", "Started" } -> 0
      [] p \in { "Executed", "Extracted" } -> 1
      [] p = "Validated" -> 2
      [] p = "Bound" -> 3
      [] p = "Proved" -> 4
      [] p \in { "Failed", "Aborted" } -> 5

Checks == { "check_length", "check_hash", "check_inputs", "check_outputs" }

InLog(x) == \E i \in 1..Len(log) : log[i] = x

AllBefore(A, B) ==
    \A i, j \in 1..Len(log) : (log[i] \in A /\ log[j] \in B) => i < j

StageStep ==
    /\ StageOf(pc) \notin { 4, 5 }
    /\ \/ StageOf(pc') = StageOf(pc)
       \/ StageOf(pc') = StageOf(pc) + 1 /\ StageOf(pc') <= 4
       \/ StageOf(pc') = 5
       \/ entry = "prover" /\ StageOf(pc) = 1 /\ StageOf(pc') = 3

StageOrder ==
    /\ AllBefore({ "execute" }, Checks \cup { "extract", "bind", "prove" })
    /\ AllBefore(Checks, { "bind", "prove" })
    /\ AllBefore({ "bind" }, { "prove" })
    /\ InLog("prove") <=> given # None
    /\ InLog("bind") <=> pub_inputs # None
    /\ InLog("execute") <=> exec_calls > 0
    /\ given # None => pub_inputs = Some(given[1].pub_inputs)
    /\ pub_inputs # None =>
          /\ trace # None
          /\ entry = "distaff" => InLog("check_length")
          /\ (entry = "distaff" /\ std) => InLog("check_hash")
          /\ (entry = "prover" /\ debug_assertions) =>
                (InLog("check_inputs") /\ InLog("check_outputs"))
          /\ result.kind \in { "Pending", "Ok" } \/ result.error = "ProvingFailure"
    /\ (\E c \in Checks : InLog(c)) => trace # None
    /\ StageOf(pc) >= 1 /\ StageOf(pc) <= 4 => trace # None
    /\ StageOf(pc) >= 3 /\ StageOf(pc) <= 4 => pub_inputs # None
    /\ pc = "Proved" <=> result.kind = "Ok"

CheckNumber(c) ==
    CASE c = "check_length" -> 1
      [] c = "check_hash" -> 2
      [] c = "check_inputs" -> 3
      [] c = "check_outputs" -> 4

FirstViolated(t, outs) ==
    IF ~MinLengthHolds(t) THEN 1
    ELSE IF ~HashBindingHolds(t) THEN 2
    ELSE IF ~InputBindingHolds(t) THEN 3
    ELSE IF ~OutputBindingHolds(t, outs) THEN 4
    ELSE 0

ErrorOfCheck(n) ==
    CASE n = 1 -> "TraceTooShort"
      [] n = 2 -> "ProgramHashMismatch"
      [] n = 3 -> "StackInputMismatch"
      [] n = 4 -> "StackOutputMismatch"

C14_ChecksInOrderFirstFailureWins ==
    /\ \A i, j \in 1..Len(log) :
          (i < j /\ log[i] \in Checks /\ log[j] \in Checks) =>
              CheckNumber(log[i]) < CheckNumber(log[j])
    /\ (Terminal /\ trace # None /\ outputs # None
            /\ FirstViolated(Tr, outputs[1]) # 0) =>
          /\ result.error = ErrorOfCheck(FirstViolated(Tr, outputs[1]))
          /\ \A i \in 1..Len(log) :
                log[i] \in Checks =>
                    CheckNumber(log[i]) <= FirstViolated(Tr, outputs[1])

\* C15: in one call the execution engine is invoked at most once, the proof
\* engine at most once, PublicInputs is built at most once and exactly once
\* on the way to success; once an engine or a check has failed no engine is
\* invoked again.
Count(x) == Cardinality({ i \in 1..Len(log) : log[i] = x })

AtMostOnce ==
    /\ exec_calls <= 1
    /\ prove_calls <= 1
    /\ Count("execute") = exec_calls
    /\ Count("prove") = prove_calls
    /\ Count("bind") <= 1
    /\ result.kind = "Ok" =>
          (Count("bind") = 1 /\ exec_calls = 1 /\ prove_calls = 1)

NoRetry ==
    (raised # None \/ result.kind \in { "Err", "Abort" }) =>
        (exec_calls' = exec_calls /\ prove_calls' = prove_calls)

C15_EnginesOnceNoRetry == [](AtMostOnce) /\ [][NoRetry]_vars

C15_Witness ==
    /\ pc = "Failed"
    /\ raised # None
    /\ raised[1].engine = "proof"
    /\ exec_calls = 1
    /\ prove_calls = 1

\* C16: from the return of the execution engine on, the trace is unchanged:
\* decoding the final row, extracting the outputs and the checks leave every
\* row as the engine produced it, the proof engine is given that same trace,
\* and the caller's ProofOptions are never changed (the proof engine is
\* given a copy equal to them).
TraceKept == trace # None => trace' = trace

OptionsKept == options' = options

C16_TraceAndOptionsUnchanged ==
    /\ [][TraceKept /\ OptionsKept]_vars
    /\ [](given # None => (given[1].trace = Tr /\ given[1].options = options))

C16_Witness ==
    /\ given # None
    /\ entry = "distaff"
    /\ num_outputs = MAX_OUTPUTS
    /\ \E i \in 1..StackDepth : given[1].trace.last_row.user_stack[i] # Felt(0)
    /\ options = "opts128"

\* C17: are_inputs_valid and are_outputs_valid return true exactly when the
\* declared sequence and the stack state agree at every index both have;
\* positions only one of them has are never compared, so the result is that
\* of the two sequences cut to the shorter length, and an empty declared
\* sequence is always accepted.
AgreeOnCommonIndices(a, b) ==
    \A i \in DOMAIN a \cap DOMAIN b : a[i] = b[i]

CutTo(a, n) == [ i \in 1..n |-> a[i] ]

C17_ZipComparesCommonPrefix ==
    zip.out # None =>
        LET a == zip.decl
            b == zip.stack
            n == IF Len(a) <= Len(b) THEN Len(a) ELSE Len(b)
        IN  /\ zip.out[1].ret = AgreeOnCommonIndices(a, b)
            /\ zip.out[1].ret = (CutTo(a, n) = CutTo(b, n))
            /\ a = << >> => zip.out[1].ret = TRUE

C17_Witness ==
    /\ zip.out # None
    /\ zip.out[1].fn = "are_inputs_valid"
    /\ zip.out[1].ret = TRUE
    /\ Len(zip.decl) = 3
    /\ Len(zip.stack) = 2
    /\ zip.decl[3] # zip.decl[2]

\* C18: in distaff execute the minimum-work check passes exactly when the
\* operation counter decoded from the last row of the trace (the row at
\* index length - 1) is at least MIN_TRACE_LENGTH; the row count of the
\* trace is not compared.
LastRowCounter == as_int(read_row(Tr, Tr.length - 1).op_counter)

C18_MinWorkReadsOpCounter ==
    (entry = "distaff" /\ InLog("check_length")) =>
        /\ result.error = "TraceTooShort" <=> LastRowCounter < MIN_TRACE_LENGTH
        /\ LastRowCounter >= MIN_TRACE_LENGTH =>
              \/ pc \in { "Validated", "Bound", "Proved" }
              \/ result.error \in { "ProgramHashMismatch", "ProvingFailure" }

C18_Witness ==
    /\ entry = "distaff"
    /\ pc = "Validated"
    /\ Tr.length < MIN_TRACE_LENGTH
    /\ LastRowCounter >= MIN_TRACE_LENGTH

====
